---- MODULE Spec2Model ----
(***************************************************************************)
(* A model of navi's MapMatcher (packages/navi/src/MapMatcher.ts): the     *)
(* map() table builder, the MapMatcherImplementation constructor (path     *)
(* selection) and the re-entrant execute() pass (resolution, child         *)
(* instance memo, result composition).                                     *)
(*                                                                         *)
(* JavaScript strings are sequences of UTF-16 code units, so that          *)
(* compareStrings orders them as the `<` operator of the source does.      *)
(* An optional value (`x?: T`) is a sequence of length 0 or 1.             *)
(***************************************************************************)
EXTENDS Integers, Sequences, FiniteSets, TLC

\* ------------------------------------------------------------------ bounds
\* The longest paths object given to map() where only the table is built and
\* the node constructed.
MaxPatterns == 3
\* The longest paths object given to map() where the node is also executed.
MaxExecutedPatterns == 2
\* The number of execute passes made on one node.
MaxPasses == 3

\* ------------------------------------------------------------- characters
\* UTF-16 code units of the characters the patterns and paths are made of.
Ch == [nul |-> 0, slash |-> 47, colon |-> 58, a |-> 97, b |-> 98, c |-> 99,
       d |-> 100, i |-> 105, x |-> 120, y |-> 121]

\* The character a wildcard part is replaced by in a mapping's sort key.
KEY_WILDCARD == <<Ch.nul>>

RootPattern == <<Ch.slash>>
PatA == <<Ch.slash, Ch.a>>
PatWild == <<Ch.slash, Ch.colon, Ch.i, Ch.d>>
PatAB == <<Ch.slash, Ch.a, Ch.slash, Ch.b>>
PatX == <<Ch.slash, Ch.x>>
PatY == <<Ch.slash, Ch.y>>

\* ----------------------------------------------------------------- strings
\* String.prototype.split('/'): the parts between the slashes, empty ones kept.
RECURSIVE SplitFrom(_, _, _, _)
SplitFrom(s, k, cur, acc) ==
  IF k > Len(s) THEN Append(acc, cur)
  ELSE IF s[k] = Ch.slash THEN SplitFrom(s, k + 1, <<>>, Append(acc, cur))
  ELSE SplitFrom(s, k + 1, Append(cur, s[k]), acc)

Split(s) == SplitFrom(s, 1, <<>>, <<>>)

\* Array.prototype.join('/').
RECURSIVE Join(_)
Join(parts) ==
  IF parts = <<>> THEN <<>>
  ELSE IF Len(parts) = 1 THEN parts[1]
  ELSE parts[1] \o <<Ch.slash>> \o Join(Tail(parts))

\* The `<` of two JavaScript strings: lexicographic on code units.
RECURSIVE StrLess(_, _)
StrLess(s, t) ==
  IF t = <<>> THEN FALSE
  ELSE IF s = <<>> THEN TRUE
  ELSE IF s[1] # t[1] THEN s[1] < t[1]
  ELSE StrLess(Tail(s), Tail(t))

\* compareStrings with the two results exchanged.
compareStringsReversed(s, t) == IF StrLess(t, s) THEN -1 ELSE IF StrLess(s, t) THEN 1 ELSE 0

\* function compareStrings(a, b)
compareStrings(s, t) == IF StrLess(s, t) THEN -1 ELSE IF StrLess(t, s) THEN 1 ELSE 0

\* ---------------------------------------------------------------- Mapping
IsWildcardPart(part) == Len(part) > 1 /\ part[1] = Ch.colon

\* The parts of a pattern or of a pathname: what stands between its slashes.
PathParts(s) == SelectSeq(Split(s), LAMBDA part : part # <<>>)

\* createMapping: the pattern compiled into a sort key, in which each wildcard
\* part is KEY_WILDCARD, and into the parts its path test compares.
createMapping(pattern, maybeResolvableMatcher) ==
  LET parts == Tail(Split(pattern))
      keyParts == [k \in 1..Len(parts) |->
                     IF IsWildcardPart(parts[k]) THEN KEY_WILDCARD ELSE parts[k]]
  IN [pattern |-> pattern,
      key |-> Join(keyParts),
      parts |-> PathParts(pattern),
      maybeResolvableMatcher |-> maybeResolvableMatcher]

PartMatches(patternPart, pathPart) ==
  IsWildcardPart(patternPart) \/ patternPart = pathPart

RECURSIVE Rejoin(_)
Rejoin(parts) ==
  IF parts = <<>> THEN <<>> ELSE <<Ch.slash>> \o parts[1] \o Rejoin(Tail(parts))

\* mappingAgainstPathname: the path test. It succeeds when the pattern's parts
\* are a prefix of the path's parts, and then yields the child environment:
\* the matched prefix moved from the request's path to its mountpath.
mappingAgainstPathname(env, mapping, appendFinalSlash) ==
  LET have == PathParts(env.request.path)
      want == mapping.parts
      n == Len(want)
  IN IF n <= Len(have) /\ \A k \in 1..n : PartMatches(want[k], have[k])
     THEN <<[request |->
               [path |-> Rejoin(SubSeq(have, n + 1, Len(have))),
                mountpath |-> env.request.mountpath \o Rejoin(SubSeq(have, 1, n))]]>>
     ELSE <<>>

\* ------------------------------------------------------------------- map()
Falsy == [kind |-> "undefined", name |-> "undefined"]

IsFunction(v) == v.kind \in {"resolvable", "matcher"}

IsMatcher(v) == v.kind = "matcher"

\* What each pattern of the model's paths objects is declared with.
Declared(pattern) ==
  CASE pattern = RootPattern -> [kind |-> "resolvable", name |-> "getRoot"]
    [] pattern = PatA -> [kind |-> "resolvable", name |-> "getA"]
    [] pattern = PatWild -> [kind |-> "matcher", name |-> "WildMatcher"]
    [] pattern = PatAB -> [kind |-> "resolvable", name |-> "getAB"]
    [] OTHER -> [kind |-> "object", name |-> "notCallable"]

Patterns == {RootPattern, PatA, PatWild, PatAB, PatX, PatY}

\* The sequences of at most n distinct elements of S.
RECURSIVE SeqsOfDistinct(_, _)
SeqsOfDistinct(S, n) ==
  IF n = 0 THEN {<<>>}
  ELSE LET shorter == SeqsOfDistinct(S, n - 1)
           longest == {t \in shorter : Len(t) = n - 1}
       IN shorter \cup
          UNION {{Append(t, e) : e \in {f \in S : \A k \in 1..Len(t) : t[k] # f}} :
                   t \in longest}

\* A paths object: its patterns in declaration order (the order of Object.keys)
\* with the value each is declared with.
PathsObjects(n) ==
  {[kind |-> "paths",
    entries |-> [k \in 1..Len(s) |-> [pattern |-> s[k], value |-> Declared(s[k])]]] :
     s \in SeqsOfDistinct(Patterns, n)}

BareFunctions ==
  {[kind |-> "resolvable", name |-> "getRoot"], [kind |-> "matcher", name |-> "RootMatcher"]}

\* The arguments map() is called with: nothing, a bare function, or a paths
\* object of at most n patterns.
MapOptions(n) == {Falsy} \cup BareFunctions \cup PathsObjects(n)

\* Insertion of one mapping into a list sorted by compare: after every mapping
\* that does not compare greater, as a stable sort places it.
RECURSIVE InsertSorted(_, _)
InsertSorted(sorted, m) ==
  IF sorted = <<>> THEN <<m>>
  ELSE IF compareStrings(m.key, sorted[1].key) < 0 THEN <<m>> \o sorted
  ELSE <<sorted[1]>> \o InsertSorted(Tail(sorted), m)

RECURSIVE SortFrom(_, _, _)
SortFrom(ms, k, sorted) ==
  IF k > Len(ms) THEN sorted ELSE SortFrom(ms, k + 1, InsertSorted(sorted, ms[k]))

\* The mappings left in declaration order.
UnsortedMappings(ms) == ms

\* .sort((x, y) => compareStrings(x.key, y.key))
SortMappings(ms) == SortFrom(ms, 1, <<>>)

\* The paths object map() works on: a bare function stands for { '/': options }.
PathsOf(options) ==
  IF IsFunction(options) THEN <<[pattern |-> RootPattern, value |-> options]>>
  ELSE options.entries

\* InvalidPaths stopping at the first value that is not a function.
InvalidPathsFirstOnly(paths) ==
  LET bad == SelectSeq(paths, LAMBDA e : ~IsFunction(e.value))
  IN IF bad = <<>> THEN <<>> ELSE <<bad[1].pattern>>

\* patterns.filter(pattern => typeof paths[pattern] !== 'function')
InvalidPaths(paths) ==
  LET bad == SelectSeq(paths, LAMBDA e : ~IsFunction(e.value))
  IN [k \in 1..Len(bad) |-> bad[k].pattern]

OrderedMappings(paths) ==
  SortMappings([k \in 1..Len(paths) |-> createMapping(paths[k].pattern, paths[k].value)])

\* ------------------------------------------------------------- constructor
RootEnvs ==
  {[request |-> [path |-> p, mountpath |-> <<>>]] :
     p \in {<<>>, <<Ch.slash>>, PatA, PatAB, <<Ch.slash, Ch.c>>}}

Resolver == "resolver"

\* ChildOf with the trailing-slash flag not handed on.
ChildOfWithoutFlag(mapping, childEnv, appendFinalSlash) ==
  [mapping |-> mapping,
   matcherOptions |-> [env |-> childEnv, resolver |-> Resolver,
                       appendFinalSlash |-> FALSE],
   maybeResolvableMatcher |-> mapping.maybeResolvableMatcher]

\* this.child as the constructor sets it.
ChildOf(mapping, childEnv, appendFinalSlash) ==
  [mapping |-> mapping,
   matcherOptions |-> [env |-> childEnv, resolver |-> Resolver,
                       appendFinalSlash |-> appendFinalSlash],
   maybeResolvableMatcher |-> mapping.maybeResolvableMatcher]

\* The loop of the constructor from position k down: the child selected and
\* the positions whose path test was run, in the order they were run.
RECURSIVE ScanFrom(_, _, _, _, _)
ScanFrom(mappings, k, env, appendFinalSlash, tested) ==
  IF k < 1 THEN [child |-> <<>>, tested |-> tested]
  ELSE LET childEnv == mappingAgainstPathname(env, mappings[k], appendFinalSlash)
       IN IF childEnv # <<>>
          THEN [child |-> <<ChildOf(mappings[k], childEnv[1], appendFinalSlash)>>,
                tested |-> Append(tested, k)]
          ELSE ScanFrom(mappings, k - 1, env, appendFinalSlash, Append(tested, k))

\* The same loop run from position k up to the end of the table.
RECURSIVE ScanUpFrom(_, _, _, _, _)
ScanUpFrom(mappings, k, env, appendFinalSlash, tested) ==
  IF k > Len(mappings) THEN [child |-> <<>>, tested |-> tested]
  ELSE LET childEnv == mappingAgainstPathname(env, mappings[k], appendFinalSlash)
       IN IF childEnv # <<>>
          THEN [child |-> <<ChildOf(mappings[k], childEnv[1], appendFinalSlash)>>,
                tested |-> Append(tested, k)]
          ELSE ScanUpFrom(mappings, k + 1, env, appendFinalSlash, Append(tested, k))

IsSingleRoot(mappings) == Len(mappings) = 1 /\ mappings[1].pattern = RootPattern

\* SelectChild with the loop started at the first position of the table.
SelectChildFromStart(mappings, env, appendFinalSlash) ==
  IF Len(mappings) = 1 /\ mappings[1].pattern = RootPattern
  THEN [child |-> <<ChildOf(mappings[1], env, appendFinalSlash)>>, tested |-> <<>>]
  ELSE ScanUpFrom(mappings, 1, env, appendFinalSlash, <<>>)

\* SelectChild without the special case of the single "/" mapping.
SelectChildAlwaysTests(mappings, env, appendFinalSlash) ==
  ScanFrom(mappings, Len(mappings), env, appendFinalSlash, <<>>)

SelectChild(mappings, env, appendFinalSlash) ==
  IF IsSingleRoot(mappings)
  THEN [child |-> <<ChildOf(mappings[1], env, appendFinalSlash)>>, tested |-> <<>>]
  ELSE ScanFrom(mappings, Len(mappings), env, appendFinalSlash, <<>>)

\* ----------------------------------------------------------------- execute
Undefined == "undefined"

\* The matchers the resolver can settle a reference to.
Matchers == {"HandlerOne", "HandlerTwo"}

\* this.resolver.resolve(env, resolvable): the handle the resolver may hand out
\* in a pass, its value absent while pending, its error set on failure.
ResolverHandles(childEnv, resolvable) ==
  {[id |-> 1, value |-> v, error |-> e] :
     v \in Matchers \cup {Undefined}, e \in {Undefined, "ResolutionError"}}

\* childMatcherInstance.getResult(): what a child instance may return. Its
\* segments and ids are the child's own business; the ids may include the one
\* the resolver gave this node.
ChildResults ==
  {[resolutionIds |-> <<>>, segments |-> <<[type |-> "view", name |-> "first"]>>],
   [resolutionIds |-> <<1>>, segments |-> <<[type |-> "view", name |-> "first"]>>],
   [resolutionIds |-> <<2>>,
    segments |-> <<[type |-> "view", name |-> "first"],
                   [type |-> "busy", name |-> "second"]>>]}

createSegment(type, request, details, appendFinalSlash) ==
  [type |-> type, request |-> request, map |-> details,
   appendFinalSlash |-> appendFinalSlash]

createNotFoundSegment(request) ==
  [type |-> "notFound", request |-> request]

createNotReadySegment(request, error, appendFinalSlash) ==
  [type |-> "notReady", request |-> request, error |-> error,
   appendFinalSlash |-> appendFinalSlash]

\* The matcher of this pass: the selected reference itself when it is a
\* matcher, else the value of the resolver's handle.
ChildMatcher(theChild, resolution) ==
  IF IsMatcher(theChild.maybeResolvableMatcher)
  THEN theChild.maybeResolvableMatcher.name
  ELSE resolution[1].value

\* new childMatcher(matcherOptions): an instance no earlier one is identical to.
NewInstance(childMatcher, matcherOptions, theHeap) ==
  [id |-> Len(theHeap) + 1, matcher |-> childMatcher, options |-> matcherOptions]

\* ChildMatcherInstance without the memo: a matcher is always instantiated.
ChildMatcherInstanceAlwaysNew(theLast, childMatcher, matcherOptions, theHeap) ==
  IF childMatcher # Undefined
  THEN <<NewInstance(childMatcher, matcherOptions, theHeap)>>
  ELSE <<>>

\* ChildMatcherInstance keeping the memo's instance when the matcher changed.
ChildMatcherInstanceStale(theLast, childMatcher, matcherOptions, theHeap) ==
  IF theLast = <<>> \/ theLast[1].matcherInstance = <<>>
  THEN IF childMatcher # Undefined
       THEN <<NewInstance(childMatcher, matcherOptions, theHeap)>>
       ELSE <<>>
  ELSE theLast[1].matcherInstance

\* ChildMatcherInstance with a cache of every instance made, keyed by matcher.
ChildMatcherInstanceCached(theLast, childMatcher, matcherOptions, theHeap) ==
  IF childMatcher = Undefined THEN <<>>
  ELSE IF \E k \in 1..Len(theHeap) : theHeap[k].matcher = childMatcher
  THEN <<theHeap[CHOOSE k \in 1..Len(theHeap) : theHeap[k].matcher = childMatcher]>>
  ELSE <<NewInstance(childMatcher, matcherOptions, theHeap)>>

\* The child instance of this pass, found in the memo or constructed.
ChildMatcherInstance(theLast, childMatcher, matcherOptions, theHeap) ==
  IF theLast = <<>> \/ theLast[1].matcher # childMatcher
  THEN IF childMatcher # Undefined
       THEN <<NewInstance(childMatcher, matcherOptions, theHeap)>>
       ELSE <<>>
  ELSE theLast[1].matcherInstance

\* NextSegments with the not-ready segment built from the node's own request.
NextSegmentsOwnRequest(childMatcherResult, childMatcherResolution, theChild, theEnv, slash) ==
  IF childMatcherResult # <<>> THEN childMatcherResult[1].segments
  ELSE IF childMatcherResolution # <<>>
  THEN <<createNotReadySegment(theEnv.request,
                               childMatcherResolution[1].error, slash)>>
  ELSE IF theEnv.request.path # <<>>
  THEN <<createNotFoundSegment(theEnv.request)>>
  ELSE <<>>

\* NextSegments with the resolution's error left out of the not-ready segment.
NextSegmentsNoError(childMatcherResult, childMatcherResolution, theChild, theEnv, slash) ==
  IF childMatcherResult # <<>> THEN childMatcherResult[1].segments
  ELSE IF childMatcherResolution # <<>>
  THEN <<createNotReadySegment(theChild[1].matcherOptions.env.request,
                               Undefined, slash)>>
  ELSE IF theEnv.request.path # <<>>
  THEN <<createNotFoundSegment(theEnv.request)>>
  ELSE <<>>

\* NextSegments with the not-found segment also for an empty remaining path.
NextSegmentsAlwaysNotFound(childMatcherResult, childMatcherResolution, theChild, theEnv, slash) ==
  IF childMatcherResult # <<>> THEN childMatcherResult[1].segments
  ELSE IF childMatcherResolution # <<>>
  THEN <<createNotReadySegment(theChild[1].matcherOptions.env.request,
                               childMatcherResolution[1].error, slash)>>
  ELSE <<createNotFoundSegment(theEnv.request)>>

\* NextSegments with the not-ready segment of a known error added after the
\* child's segments.
NextSegmentsPlaceholderToo(childMatcherResult, childMatcherResolution, theChild, theEnv, slash) ==
  IF childMatcherResult # <<>>
  THEN childMatcherResult[1].segments \o
       (IF childMatcherResolution # <<>> /\ childMatcherResolution[1].error # Undefined
        THEN <<createNotReadySegment(theChild[1].matcherOptions.env.request,
                                     childMatcherResolution[1].error, slash)>>
        ELSE <<>>)
  ELSE IF childMatcherResolution # <<>>
  THEN <<createNotReadySegment(theChild[1].matcherOptions.env.request,
                               childMatcherResolution[1].error, slash)>>
  ELSE IF theEnv.request.path # <<>>
  THEN <<createNotFoundSegment(theEnv.request)>>
  ELSE <<>>

\* What follows the map segment.
NextSegments(childMatcherResult, childMatcherResolution, theChild, theEnv, slash) ==
  IF childMatcherResult # <<>> THEN childMatcherResult[1].segments
  ELSE IF childMatcherResolution # <<>>
  THEN <<createNotReadySegment(theChild[1].matcherOptions.env.request,
                               childMatcherResolution[1].error, slash)>>
  ELSE IF theEnv.request.path # <<>>
  THEN <<createNotFoundSegment(theEnv.request)>>
  ELSE <<>>

\* ResolutionIds with the node's own ids left out.
ResolutionIdsChildOnly(ownIds, childMatcherResult) ==
  IF childMatcherResult # <<>> THEN childMatcherResult[1].resolutionIds ELSE <<>>

\* resolutionIds.concat(childMatcherResult ? childMatcherResult.resolutionIds : [])
ResolutionIds(ownIds, childMatcherResult) ==
  ownIds \o (IF childMatcherResult # <<>> THEN childMatcherResult[1].resolutionIds
             ELSE <<>>)

\* AsksResolver without the isMatcher test: every selected reference is resolved.
AsksResolverAlways(theChild) == theChild # <<>>

\* Whether execute() asks the resolver: a child is selected and its reference
\* is not a matcher.
AsksResolver(theChild) ==
  theChild # <<>> /\ ~IsMatcher(theChild[1].maybeResolvableMatcher)

\* What this.resolver.resolve is called with.
ResolveArguments(theChild) ==
  [env |-> theChild.matcherOptions.env,
   resolvable |-> theChild.maybeResolvableMatcher]

\* One pass of execute() given what the resolver hands out, if it is asked
\* (childMatcherResolution), and what the child, if there is one, returns
\* (childResult).
ExecutePass(theChild, theLast, theHeap, theEnv, slash, childMatcherResolution, childResult) ==
  LET ownIds == IF childMatcherResolution # <<>>
                THEN <<childMatcherResolution[1].id>> ELSE <<>>
      childMatcher ==
        IF theChild # <<>> THEN ChildMatcher(theChild[1], childMatcherResolution)
        ELSE Undefined
      childMatcherInstance ==
        IF theChild # <<>>
        THEN ChildMatcherInstance(theLast, childMatcher,
                                  theChild[1].matcherOptions, theHeap)
        ELSE <<>>
      constructed ==
        childMatcherInstance # <<>> /\ childMatcherInstance[1].id > Len(theHeap)
      childMatcherResult ==
        IF childMatcherInstance # <<>> THEN <<childResult>> ELSE <<>>
      mapSegment == createSegment("map", theEnv.request, "thisMap", slash)
  IN [last |-> IF theChild # <<>>
               THEN <<[matcher |-> childMatcher,
                       matcherInstance |-> childMatcherInstance]>>
               ELSE theLast,
      heap |-> IF constructed THEN Append(theHeap, childMatcherInstance[1])
               ELSE theHeap,
      loc |-> [childMatcher |-> childMatcher,
               childMatcherInstance |-> childMatcherInstance,
               childMatcherResolution |-> childMatcherResolution,
               resolveArguments |-> IF childMatcherResolution # <<>>
                                    THEN <<ResolveArguments(theChild[1])>> ELSE <<>>,
               childMatcherResult |-> childMatcherResult,
               constructed |-> constructed],
      result |-> [resolutionIds |-> ResolutionIds(ownIds, childMatcherResult),
                  segments |-> <<mapSegment>> \o
                    NextSegments(childMatcherResult, childMatcherResolution,
                                 theChild, theEnv, slash)]]

\* PassSelection with the selection made again in every pass.
PassSelectionReselects(mappings, theChild, theTested, theEnv, slash) ==
  [child |-> SelectChild(mappings, theEnv, slash).child,
   tested |-> theTested \o SelectChild(mappings, theEnv, slash).tested]

\* this.child and the path tests run, after a pass: execute() reads this.child,
\* never assigns it, and calls no mappingAgainstPathname.
PassSelection(mappings, theChild, theTested, theEnv, slash) ==
  [child |-> theChild, tested |-> theTested]

\* ------------------------------------------------------------------- state
VARIABLES
  pc,               \* "start", "defined", "threw" or "constructed"
  options,          \* the argument map() was called with
  thrown,           \* what map() threw, if it threw
  orderedMappings,  \* static orderedMappings of the class map() returned
  env,              \* this.env of the node
  appendFinalSlash, \* this.appendFinalSlash of the node
  child,            \* this.child
  tested,           \* the table positions the constructor ran a path test on
  last,             \* this.last
  heap,             \* every child instance constructed so far
  passes,           \* the number of execute passes made
  prev,             \* the locals of the pass before the latest one
  loc,              \* the locals of the latest pass
  result            \* what the latest pass returned

vars == <<pc, options, thrown, orderedMappings, env, appendFinalSlash, child,
          tested, last, heap, passes, prev, loc, result>>

NoEnv == [request |-> [path |-> <<>>, mountpath |-> <<>>]]

Init ==
  /\ pc = "start"
  /\ options = Falsy
  /\ thrown = <<>>
  /\ orderedMappings = <<>>
  /\ env = NoEnv
  /\ appendFinalSlash = FALSE
  /\ child = <<>>
  /\ tested = <<>>
  /\ last = <<>>
  /\ heap = <<>>
  /\ passes = 0
  /\ prev = <<>>
  /\ loc = <<>>
  /\ result = <<>>

\* map(options) throws: no paths object, or a value that is not a function.
MapThrows(n) ==
  /\ pc = "start"
  /\ \E o \in MapOptions(n) :
       /\ options' = o
       /\ \/ /\ o = Falsy
             /\ thrown' = <<[type |-> "Error", names |-> <<>>]>>
          \/ /\ o # Falsy
             /\ InvalidPaths(PathsOf(o)) # <<>>
             /\ thrown' = <<[type |-> "TypeError", names |-> InvalidPaths(PathsOf(o))]>>
  /\ pc' = "threw"
  /\ UNCHANGED <<orderedMappings, env, appendFinalSlash, child, tested, last,
                 heap, passes, prev, loc, result>>

\* map(options) returns a matcher class.
MapReturns(n) ==
  /\ pc = "start"
  /\ \E o \in MapOptions(n) :
       /\ o # Falsy
       /\ InvalidPaths(PathsOf(o)) = <<>>
       /\ options' = o
       /\ orderedMappings' = OrderedMappings(PathsOf(o))
  /\ pc' = "defined"
  /\ UNCHANGED <<thrown, env, appendFinalSlash, child, tested, last, heap,
                 passes, prev, loc, result>>

\* new MapMatcherImplementation(options)
Construct ==
  /\ pc = "defined"
  /\ \E e \in RootEnvs, slash \in BOOLEAN :
       LET sel == SelectChild(orderedMappings, e, slash)
       IN /\ env' = e
          /\ appendFinalSlash' = slash
          /\ child' = sel.child
          /\ tested' = sel.tested
  /\ pc' = "constructed"
  /\ UNCHANGED <<options, thrown, orderedMappings, last, heap, passes, prev,
                 loc, result>>

\* One getResult() of the node: a pass of execute().
Execute ==
  /\ pc = "constructed"
  /\ passes < MaxPasses
  /\ \E resolution \in
          IF AsksResolver(child)
          THEN {<<h>> : h \in ResolverHandles(ResolveArguments(child[1]).env,
                                              ResolveArguments(child[1]).resolvable)}
          ELSE {<<>>},
        childResult \in ChildResults :
       LET pass == ExecutePass(child, last, heap, env, appendFinalSlash,
                               resolution, childResult)
       IN /\ last' = pass.last
          /\ heap' = pass.heap
          /\ loc' = <<pass.loc>>
          /\ result' = <<pass.result>>
  /\ child' = PassSelection(orderedMappings, child, tested, env, appendFinalSlash).child
  /\ tested' = PassSelection(orderedMappings, child, tested, env, appendFinalSlash).tested
  /\ prev' = loc
  /\ passes' = passes + 1
  /\ UNCHANGED <<pc, options, thrown, orderedMappings, env, appendFinalSlash>>

Next ==
  \/ MapThrows(MaxExecutedPatterns)
  \/ MapReturns(MaxExecutedPatterns)
  \/ Construct
  \/ Execute

Spec == Init /\ [][Next]_vars

\* Table building and node construction alone, on longer paths objects.
NextSelect ==
  \/ MapThrows(MaxPatterns)
  \/ MapReturns(MaxPatterns)
  \/ Construct

SpecSelect == Init /\ [][NextSelect]_vars

\* ----------------------------------------------------------------- helpers
Range(seq) == {seq[k] : k \in 1..Len(seq)}

Constructed == pc = "constructed"

\* A pass has been made; loc and result describe it.
Passed == Constructed /\ loc # <<>>

\* The selected reference is one the resolver has to resolve.
NeedsResolution == AsksResolver(child)

\* The positions of the table whose path test succeeds on the node's environment.
Succeeding ==
  {k \in 1..Len(orderedMappings) :
     mappingAgainstPathname(env, orderedMappings[k], appendFinalSlash) # <<>>}

Highest(S) == CHOOSE k \in S : \A j \in S : j <= k

\* The map segment of this node, from its own environment's request.
OwnMapSegment ==
  [type |-> "map", request |-> env.request, map |-> "thisMap",
   appendFinalSlash |-> appendFinalSlash]

\* ------------------------------------------------------------------ claims

\* C1: on a node whose selected reference needs resolution, when the resolver
\* hands out the same value in two consecutive passes, the second pass uses the
\* very child instance of the first and constructs none.
C1_SameHandlerSameInstance ==
  (Passed /\ NeedsResolution /\ prev # <<>>
     /\ prev[1].childMatcherResolution[1].value = loc[1].childMatcherResolution[1].value)
  => /\ loc[1].childMatcherInstance = prev[1].childMatcherInstance
     /\ ~loc[1].constructed

C1_Witness ==
  /\ Passed /\ NeedsResolution /\ passes = MaxPasses
  /\ prev[1].childMatcherResolution[1].value = loc[1].childMatcherResolution[1].value
  /\ loc[1].childMatcherInstance # <<>>
  /\ loc[1].childMatcherInstance = prev[1].childMatcherInstance

\* C2: when the matcher of a pass is defined and is not the one the previous
\* pass recorded in the memo (the first pass included), the pass constructs a
\* child instance that no earlier pass used, for that matcher, and uses it.
C2_ChangedHandlerFreshInstance ==
  (Passed /\ child # <<>> /\ loc[1].childMatcher # Undefined
     /\ (prev = <<>> \/ prev[1].childMatcher # loc[1].childMatcher))
  => /\ loc[1].constructed
     /\ loc[1].childMatcherInstance = <<heap[Len(heap)]>>
     /\ heap[Len(heap)].matcher = loc[1].childMatcher
     /\ \A k \in 1..(Len(heap) - 1) : heap[k].id # heap[Len(heap)].id
     /\ prev # <<>> => prev[1].childMatcherInstance # loc[1].childMatcherInstance
     /\ last[1].matcherInstance = loc[1].childMatcherInstance

C2_Witness ==
  /\ Passed /\ NeedsResolution /\ prev # <<>>
  /\ prev[1].childMatcher \in Matchers
  /\ loc[1].childMatcher \in Matchers
  /\ prev[1].childMatcher # loc[1].childMatcher
  /\ loc[1].constructed
  /\ Len(heap) >= 2

\* C3: for a table that is not the single-root special case, the constructor
\* selects the highest position of the ascending table whose path test
\* succeeds, with that test's result as the child environment, and tests no
\* lower position; when no test succeeds there is no child.
C3_SelectsHighestSucceeding ==
  (Constructed /\ ~IsSingleRoot(orderedMappings))
  => /\ \A j, k \in 1..Len(orderedMappings) :
          j < k => ~StrLess(orderedMappings[k].key, orderedMappings[j].key)
     /\ IF Succeeding = {}
        THEN child = <<>>
        ELSE /\ child # <<>>
             /\ child[1].mapping = orderedMappings[Highest(Succeeding)]
             /\ child[1].maybeResolvableMatcher =
                  orderedMappings[Highest(Succeeding)].maybeResolvableMatcher
             /\ <<child[1].matcherOptions.env>> =
                  mappingAgainstPathname(env, orderedMappings[Highest(Succeeding)],
                                         appendFinalSlash)
             /\ \A k \in Range(tested) : k >= Highest(Succeeding)

C3_Witness ==
  /\ Constructed /\ ~IsSingleRoot(orderedMappings)
  /\ Cardinality(Succeeding) >= 2
  /\ Highest(Succeeding) < Len(orderedMappings)
  /\ Highest(Succeeding) > 1
  /\ child # <<>>
  /\ Len(tested) < Len(orderedMappings)

\* The paths object declares exactly the literal "/a" and the wildcard "/:id".
LiteralAndWildcard ==
  /\ options.kind = "paths"
  /\ Len(options.entries) = 2
  /\ {options.entries[1].pattern, options.entries[2].pattern} = {PatA, PatWild}

\* C4: with the literal "/a" and the wildcard "/:id" declared in either order,
\* a node for the request path /a selects the literal entry.
C4_LiteralBeatsWildcard ==
  (Constructed /\ LiteralAndWildcard /\ env.request.path = PatA)
  => /\ child # <<>>
     /\ child[1].mapping.pattern = PatA
     /\ child[1].maybeResolvableMatcher = Declared(PatA)

C4_Witness ==
  /\ Constructed /\ LiteralAndWildcard /\ env.request.path = PatA
  /\ options.entries[1].pattern = PatA
  /\ child # <<>>
  /\ child[1].mapping.pattern = PatA
  /\ orderedMappings[1].key = KEY_WILDCARD

\* The orders a paths object's entries can be declared in.
DeclarationOrders(entries) ==
  {p \in [1..Len(entries) -> Range(entries)] : Range(p) = Range(entries)}

\* The paths object has two or more patterns, their sort keys differ pairwise,
\* and exactly one pattern's path test succeeds on the node's environment.
ExactlyOneMatches ==
  /\ options.kind = "paths"
  /\ Len(options.entries) >= 2
  /\ \A j, k \in 1..Len(orderedMappings) :
       j # k => orderedMappings[j].key # orderedMappings[k].key
  /\ Cardinality(Succeeding) = 1

\* C5: with two or more patterns of pairwise distinct sort keys and a path on
\* which exactly one path test succeeds, every declaration order gives the same
\* ordered table and the same selection: that pattern's entry.
C5_DeclarationOrderIrrelevant ==
  (Constructed /\ ExactlyOneMatches)
  => /\ child # <<>>
     /\ child[1].mapping = orderedMappings[Highest(Succeeding)]
     /\ \A p \in DeclarationOrders(options.entries) :
          /\ OrderedMappings(p) = orderedMappings
          /\ SelectChild(OrderedMappings(p), env, appendFinalSlash).child = child

C5_Witness ==
  /\ Constructed /\ ExactlyOneMatches
  /\ child # <<>>
  /\ options.entries[1].pattern = orderedMappings[Len(orderedMappings)].pattern
  /\ child[1].mapping.pattern = options.entries[2].pattern

\* C6: a table of the single entry "/" is selected for every request path,
\* with no path test run and the node's own environment as the child's.
C6_SingleRootUnconditional ==
  (Constructed /\ IsSingleRoot(orderedMappings))
  => /\ child # <<>>
     /\ child[1].mapping = orderedMappings[1]
     /\ child[1].maybeResolvableMatcher = orderedMappings[1].maybeResolvableMatcher
     /\ child[1].matcherOptions.env = env
     /\ tested = <<>>

C6_Witness ==
  /\ Constructed /\ IsSingleRoot(orderedMappings)
  /\ env.request.path = PatAB
  /\ child # <<>>
  /\ child[1].matcherOptions.env.request.path = PatAB
  /\ tested = <<>>

\* The resolver was asked in the latest pass and its handle has no value.
Unresolved ==
  /\ Passed /\ loc[1].childMatcherResolution # <<>>
  /\ loc[1].childMatcherResolution[1].value = Undefined

\* C7: a pass whose handle has neither value nor error returns exactly the map
\* segment and a not-ready segment, built from the child environment's request
\* and carrying no error, and constructs no child instance.
C7_PendingYieldsNotReady ==
  (Unresolved /\ loc[1].childMatcherResolution[1].error = Undefined)
  => /\ result[1].segments =
          <<OwnMapSegment,
            [type |-> "notReady", request |-> child[1].matcherOptions.env.request,
             error |-> Undefined, appendFinalSlash |-> appendFinalSlash]>>
     /\ ~loc[1].constructed
     /\ loc[1].childMatcherInstance = <<>>

C7_Witness ==
  /\ Unresolved /\ loc[1].childMatcherResolution[1].error = Undefined
  /\ child[1].matcherOptions.env.request # env.request
  /\ Len(result[1].segments) = 2
  /\ result[1].segments[2].type = "notReady"
  /\ result[1].segments[2].request = child[1].matcherOptions.env.request
  /\ prev # <<>> /\ prev[1].childMatcherInstance # <<>>

\* C8: a pass whose handle has an error and no value returns the map segment
\* and a not-ready segment carrying that error; a pass whose handle has a value
\* returns the map segment followed by the child's segments as the child
\* returned them, whatever error an earlier pass carried.
C8_ErrorCarriedThenForgotten ==
  /\ (Unresolved /\ loc[1].childMatcherResolution[1].error # Undefined)
     => result[1].segments =
          <<OwnMapSegment,
            [type |-> "notReady", request |-> child[1].matcherOptions.env.request,
             error |-> loc[1].childMatcherResolution[1].error,
             appendFinalSlash |-> appendFinalSlash]>>
  /\ (Passed /\ loc[1].childMatcherResolution # <<>>
        /\ loc[1].childMatcherResolution[1].value # Undefined)
     => /\ loc[1].childMatcherResult # <<>>
        /\ result[1].segments =
             <<OwnMapSegment>> \o loc[1].childMatcherResult[1].segments
        /\ \A k \in 2..Len(result[1].segments) :
             result[1].segments[k].type # "notReady"

C8_Witness ==
  /\ Passed /\ prev # <<>>
  /\ prev[1].childMatcherResolution # <<>>
  /\ prev[1].childMatcherResolution[1].value = Undefined
  /\ prev[1].childMatcherResolution[1].error = "ResolutionError"
  /\ loc[1].childMatcherResolution[1].value \in Matchers
  /\ Len(result[1].segments) = 3
  /\ result[1].segments[2].type = "view"

\* C9: a node with no selected entry returns, in every pass, no resolution ids
\* and the map segment alone when the request path is empty, followed by a
\* not-found segment from the node's own request when it is not.
C9_UnmatchedResult ==
  (Passed /\ child = <<>>)
  => /\ result[1].resolutionIds = <<>>
     /\ result[1].segments =
          IF env.request.path # <<>>
          THEN <<OwnMapSegment, [type |-> "notFound", request |-> env.request]>>
          ELSE <<OwnMapSegment>>

C9_Witness ==
  /\ Passed /\ child = <<>> /\ passes = MaxPasses
  /\ orderedMappings # <<>>
  /\ env.request.path = <<>>
  /\ result[1].segments = <<OwnMapSegment>>

\* C10: the resolution ids a pass returns hold no id twice, and are as a set
\* the node's own id together with the ids of the child's result.
C10_NoDuplicateIds ==
  Passed
  => LET ids == result[1].resolutionIds
         own == IF loc[1].childMatcherResolution # <<>>
                THEN {loc[1].childMatcherResolution[1].id} ELSE {}
         childs == IF loc[1].childMatcherResult # <<>>
                   THEN Range(loc[1].childMatcherResult[1].resolutionIds) ELSE {}
     IN /\ Range(ids) = own \cup childs
        /\ \A j, k \in 1..Len(ids) : j # k => ids[j] # ids[k]

\* C11: the resolution ids of a pass are the node's own id, present only while
\* the resolver's handle has no value, followed by the ids of the child's
\* result in the child's order; a settled node whose child reports no ids
\* returns none.
C11_OwnIdOnlyWhilePending ==
  Passed
  => result[1].resolutionIds =
       (IF loc[1].childMatcherResolution # <<>>
           /\ loc[1].childMatcherResolution[1].value = Undefined
        THEN <<loc[1].childMatcherResolution[1].id>> ELSE <<>>)
       \o (IF loc[1].childMatcherResult # <<>>
           THEN loc[1].childMatcherResult[1].resolutionIds ELSE <<>>)

\* The selected reference is itself a matcher.
SelectedIsMatcher == child # <<>> /\ IsMatcher(child[1].maybeResolvableMatcher)

\* C12: when the selected reference is a matcher, every pass uses it as the
\* child matcher, does not ask the resolver, and returns the ids of the
\* child's result and no id of its own.
C12_ConcreteUsedDirectly ==
  (Passed /\ SelectedIsMatcher)
  => /\ loc[1].childMatcher = child[1].maybeResolvableMatcher.name
     /\ loc[1].childMatcherResolution = <<>>
     /\ loc[1].childMatcherInstance # <<>>
     /\ loc[1].childMatcherInstance[1].matcher = child[1].maybeResolvableMatcher.name
     /\ loc[1].childMatcherResult # <<>>
     /\ result[1].resolutionIds = loc[1].childMatcherResult[1].resolutionIds

C12_Witness ==
  /\ Passed /\ SelectedIsMatcher /\ passes = MaxPasses
  /\ loc[1].childMatcherResolution = <<>>
  /\ loc[1].childMatcherResult[1].resolutionIds = <<>>
  /\ result[1].resolutionIds = <<>>
  /\ prev[1].childMatcherResult[1].resolutionIds # <<>>

\* C13: once the node is constructed, no step changes this.child (the selected
\* entry, the child environment and options, or their absence), and no step
\* runs a path test.
C13_SelectionFixed ==
  [][Constructed => (child' = child /\ tested' = tested /\ env' = env)]_vars

C13_Witness ==
  /\ Passed /\ NeedsResolution /\ passes = MaxPasses
  /\ prev[1].childMatcher # loc[1].childMatcher
  /\ child = SelectChild(orderedMappings, env, appendFinalSlash).child
  /\ tested = SelectChild(orderedMappings, env, appendFinalSlash).tested
  /\ Len(tested) = 2

\* The patterns of the paths object whose value is not a function.
NotFunctions ==
  {e.pattern : e \in {f \in Range(PathsOf(options)) : f.value.kind \notin {"resolvable", "matcher"}}}

\* C14: map() with a falsy argument throws an error; map() with a paths object
\* holding a value that is not a function throws a TypeError that names every
\* such pattern; in both cases no class is returned; otherwise map() returns a
\* class and throws nothing.
C14_MapThrowsOrReturns ==
  pc # "start"
  => IF options = Falsy
     THEN /\ pc = "threw"
          /\ thrown # <<>> /\ thrown[1].type = "Error"
          /\ orderedMappings = <<>>
     ELSE IF NotFunctions # {}
     THEN /\ pc = "threw"
          /\ thrown # <<>> /\ thrown[1].type = "TypeError"
          /\ Range(thrown[1].names) = NotFunctions
          /\ orderedMappings = <<>>
     ELSE /\ pc \in {"defined", "constructed"}
          /\ thrown = <<>>
          /\ Len(orderedMappings) = Len(PathsOf(options))

C14_Witness ==
  /\ pc = "threw"
  /\ options # Falsy
  /\ Cardinality(NotFunctions) = 2
  /\ Len(PathsOf(options)) = 3
  /\ thrown[1].type = "TypeError"
  /\ Len(thrown[1].names) = 2

\* The resolver was asked in the latest pass and its handle carries an error.
HandleHasError ==
  /\ Passed /\ loc[1].childMatcherResolution # <<>>
  /\ loc[1].childMatcherResolution[1].error # Undefined

\* C15 as stated: whenever the handle carries an error, with or without a
\* value, the returned segments hold a not-ready segment carrying that error.
C15_ErrorAlwaysSurfaced ==
  HandleHasError
  => \E k \in 1..Len(result[1].segments) :
       /\ result[1].segments[k].type = "notReady"
       /\ result[1].segments[k].error = loc[1].childMatcherResolution[1].error

\* C15 as amended: a handle with an error and no value gives a not-ready
\* segment carrying that error right after the map segment; a handle with an
\* error and a value gives the child's segments and no such segment.
C15_ErrorSurfacedWithoutValue ==
  HandleHasError
  => IF loc[1].childMatcherResolution[1].value = Undefined
     THEN /\ Len(result[1].segments) = 2
          /\ result[1].segments[2].type = "notReady"
          /\ result[1].segments[2].error = loc[1].childMatcherResolution[1].error
     ELSE /\ loc[1].childMatcherResult # <<>>
          /\ Tail(result[1].segments) = loc[1].childMatcherResult[1].segments
          /\ \A k \in 1..Len(result[1].segments) :
               result[1].segments[k].type # "notReady"

C15_Witness ==
  /\ HandleHasError /\ passes >= 2
  /\ loc[1].childMatcherResolution[1].value = Undefined
  /\ prev[1].childMatcherResolution[1].value \in Matchers
  /\ prev[1].childMatcherResolution[1].error # Undefined
  /\ result[1].segments[2].type = "notReady"
  /\ result[1].segments[2].error = "ResolutionError"

\* The placeholder segments this node can build.
OwnPlaceholders ==
  {[type |-> "notFound", request |-> env.request]}
  \cup (IF child = <<>> THEN {}
        ELSE {[type |-> "notReady", request |-> child[1].matcherOptions.env.request,
               error |-> e, appendFinalSlash |-> appendFinalSlash] :
                e \in {Undefined, "ResolutionError"}})

\* C16: every result starts with the one map segment of this node, built from
\* the node's own request, followed by exactly one of: the child's segments as
\* returned, one not-ready segment, one not-found segment, nothing; a
\* placeholder of this node never stands with child segments.
C16_MapSegmentThenOneContinuation ==
  Passed
  => LET segments == result[1].segments
         rest == Tail(result[1].segments)
     IN /\ segments # <<>>
        /\ segments[1] = OwnMapSegment
        /\ \A k \in 2..Len(segments) : segments[k] # OwnMapSegment
        /\ IF loc[1].childMatcherResult # <<>>
           THEN /\ rest = loc[1].childMatcherResult[1].segments
                /\ Range(rest) \cap OwnPlaceholders = {}
           ELSE \/ /\ loc[1].childMatcherResolution # <<>>
                   /\ Len(rest) = 1
                   /\ rest[1].type = "notReady"
                   /\ rest[1] \in OwnPlaceholders
                \/ /\ child = <<>>
                   /\ rest = <<[type |-> "notFound", request |-> env.request]>>
                \/ /\ child = <<>>
                   /\ rest = <<>>

C16_Witness ==
  /\ Passed /\ NeedsResolution
  /\ child[1].matcherOptions.env.request # env.request
  /\ loc[1].childMatcherResolution[1].error # Undefined
  /\ loc[1].childMatcherResult # <<>>
  /\ Len(result[1].segments) = 3
  /\ result[1].segments[1].request = env.request
  /\ result[1].segments[3].type = "busy"

\* The latest result holds a not-ready segment built by this node.
HasOwnNotReady ==
  /\ Passed /\ loc[1].childMatcherResult = <<>>
  /\ \E k \in 2..Len(result[1].segments) : result[1].segments[k].type = "notReady"

\* C17: a result that holds this node's not-ready segment also holds, in its
\* resolution ids, the id of the handle the resolver returned in that pass.
C17_NotReadyComesWithId ==
  HasOwnNotReady
  => /\ loc[1].childMatcherResolution # <<>>
     /\ result[1].resolutionIds # <<>>
     /\ loc[1].childMatcherResolution[1].id \in Range(result[1].resolutionIds)

C17_Witness ==
  /\ HasOwnNotReady /\ passes = 1
  /\ loc[1].childMatcherResolution[1].error = Undefined
  /\ result[1].resolutionIds = <<loc[1].childMatcherResolution[1].id>>

\* C18: after a pass on a node with a selected entry the memo holds the matcher
\* of that pass (undefined when the handle has no value), it holds an instance
\* exactly when it holds a matcher, and that instance was constructed from that
\* matcher; a node with no selected entry never sets the memo.
C18_MemoMatchesPass ==
  /\ (Passed /\ child # <<>>)
     => /\ last # <<>>
        /\ last[1].matcher = loc[1].childMatcher
        /\ NeedsResolution
             => last[1].matcher = loc[1].childMatcherResolution[1].value
        /\ (last[1].matcherInstance # <<>>) <=> (last[1].matcher # Undefined)
        /\ last[1].matcherInstance # <<>>
             => /\ last[1].matcherInstance[1].matcher = last[1].matcher
                /\ last[1].matcherInstance[1] \in Range(heap)
  /\ (Constructed /\ child = <<>>) => last = <<>>
  /\ (Constructed /\ passes = 0) => last = <<>>

C18_Witness ==
  /\ Passed /\ NeedsResolution /\ passes = MaxPasses
  /\ Len(heap) = 2
  /\ ~loc[1].constructed
  /\ last[1].matcher = "HandlerTwo"
  /\ last[1].matcherInstance = <<heap[2]>>
  /\ heap[1].matcher = "HandlerOne"

\* The resolver was asked in the previous pass and in the latest one.
AskedTwice ==
  /\ Passed /\ prev # <<>>
  /\ prev[1].childMatcherResolution # <<>>
  /\ loc[1].childMatcherResolution # <<>>

\* C19: a pass with no value that follows a pass with a value returns the map
\* segment and a not-ready segment, the node's own id alone, and leaves no
\* instance in the memo; a pass with a value that follows a pass with no value
\* constructs an instance no earlier pass used, also for a matcher an earlier
\* pass had.
C19_UnresolvedClearsMemo ==
  /\ (AskedTwice /\ prev[1].childMatcherResolution[1].value # Undefined
        /\ loc[1].childMatcherResolution[1].value = Undefined)
     => /\ prev[1].childMatcherInstance # <<>>
        /\ result[1].segments =
             <<OwnMapSegment,
               [type |-> "notReady", request |-> child[1].matcherOptions.env.request,
                error |-> loc[1].childMatcherResolution[1].error,
                appendFinalSlash |-> appendFinalSlash]>>
        /\ result[1].resolutionIds = <<loc[1].childMatcherResolution[1].id>>
        /\ loc[1].childMatcherInstance = <<>>
        /\ last[1].matcherInstance = <<>>
  /\ (AskedTwice /\ prev[1].childMatcherResolution[1].value = Undefined
        /\ loc[1].childMatcherResolution[1].value # Undefined)
     => /\ loc[1].constructed
        /\ loc[1].childMatcherInstance = <<heap[Len(heap)]>>
        /\ \A k \in 1..(Len(heap) - 1) : heap[k] # heap[Len(heap)]
        /\ last[1].matcherInstance = <<heap[Len(heap)]>>

C19_Witness ==
  /\ AskedTwice /\ passes = 3
  /\ prev[1].childMatcherResolution[1].value = Undefined
  /\ loc[1].childMatcherResolution[1].value = "HandlerOne"
  /\ Len(heap) = 2
  /\ heap[1].matcher = "HandlerOne"
  /\ heap[2].matcher = "HandlerOne"
  /\ heap[1].id # heap[2].id
  /\ loc[1].childMatcherInstance = <<heap[2]>>

\* The child environment the constructor fixed: the node's own environment for
\* the single root entry, else the result of the selected entry's path test.
SelectedEnv ==
  IF IsSingleRoot(orderedMappings) THEN env
  ELSE mappingAgainstPathname(env, child[1].mapping, appendFinalSlash)[1]

\* C20: every child instance a node constructs gets the options fixed at the
\* node's construction (the selected child environment, the node's resolver,
\* the node's appendFinalSlash), and the resolver is called with that child
\* environment and the selected reference.
C20_ChildOptionsFixed ==
  (Constructed /\ child # <<>>)
  => /\ \A k \in 1..Len(heap) :
          heap[k].options = [env |-> SelectedEnv, resolver |-> Resolver,
                             appendFinalSlash |-> appendFinalSlash]
     /\ (loc # <<>> /\ loc[1].childMatcherResolution # <<>>)
          => loc[1].resolveArguments =
               <<[env |-> SelectedEnv,
                  resolvable |-> child[1].mapping.maybeResolvableMatcher]>>
     /\ (loc # <<>> /\ loc[1].childMatcherResolution = <<>>)
          => loc[1].resolveArguments = <<>>

C20_Witness ==
  /\ Passed /\ NeedsResolution /\ passes = MaxPasses
  /\ appendFinalSlash
  /\ ~IsSingleRoot(orderedMappings)
  /\ SelectedEnv # env
  /\ Len(heap) >= 2
  /\ heap[1].options = heap[2].options
  /\ heap[2].options.appendFinalSlash
  /\ loc[1].resolveArguments # <<>>
====
